---- MODULE Spec2Model ----
(***************************************************************************)
(* Model of prepare_tableau_data.py: main() connects to the database, runs *)
(* five analytical queries in a fixed order, writes each result to a CSV   *)
(* file, logs a summary and closes the connection.                         *)
(*                                                                         *)
(* Units.  Per-game and advanced stats (pg_points, adv_win_shares,         *)
(* adv_value_over_replacement) are kept in tenths; salaries in thousands   *)
(* of dollars.  Fields rounded to 2 decimals are kept in hundredths,       *)
(* fields rounded to 0 decimals in whole dollars.  Arithmetic is exact     *)
(* with one ROUND (half away from zero), as the SQL text states it.        *)
(* A nullable SQL value is the empty tuple (NULL) or a 1-tuple <<v>>.      *)
(* Only the columns that enter a filter, join, sort key, computed column   *)
(* or count are carried; the remaining columns are copied through by the   *)
(* queries unchanged.                                                      *)
(***************************************************************************)
EXTENDS Integers, Sequences, FiniteSets, TLC

VARIABLES pms,          \* table player_merged_stats
          ps,           \* table player_salaries
          pc,           \* position of main()
          step,         \* number of the derivation being produced (1..5)
          connection,   \* the object main() holds: NoConn or ConnObj
          link,         \* state of the session: "none", "up", "lost", "closed"
          closeCalls,   \* number of calls of connection.close()
          dfs,          \* main_df, team_df, comparison_df, value_df, position_df
          files,        \* the five CSV files
          summary,      \* record counts of the logged summary, or NoSummary
          log           \* logging output

vars == <<pms, ps, pc, step, connection, link, closeCalls, dfs, files, summary, log>>

\* Number of distinct player names in the source tables.
MaxPlayers == 2

Players == 1..MaxPlayers
Seasons == {"2021-22", "2022-23", "2023-24", "2024-25"}
Steps == 1..5

----------------------------------------------------------------------------
\* SQL values

NULL == <<>>
Some(v) == <<v>>

\* A comparison is TRUE only when its operand is not NULL (UNKNOWN does not
\* select a WHEN branch, a WHERE row or an ON match).
SqlGT(x, c) == x # NULL /\ x[1] > c
SqlGE(x, c) == x # NULL /\ x[1] >= c
SqlLT(x, c) == x # NULL /\ x[1] < c
SqlLE(x, c) == x # NULL /\ x[1] <= c

IFNULL(x, d) == IF x = NULL THEN Some(d) ELSE x

\* x - y, NULL when either side is NULL
SqlMinus(x, y) == IF x = NULL \/ y = NULL THEN NULL ELSE Some(x[1] - y[1])

\* ROUND(n / d, 0) for d > 0: nearest integer, halves away from zero
RoundDivPos(n, d) == IF 2 * (n % d) >= d THEN (n \div d) + 1 ELSE n \div d
RoundDiv(n, d) == IF n >= 0 THEN RoundDivPos(n, d) ELSE 0 - RoundDivPos(0 - n, d)

\* CAST(SUBSTRING(season, 1, 4) AS UNSIGNED)
SeasonYear(s) ==
    CASE s = "2021-22" -> 2021
      [] s = "2022-23" -> 2022
      [] s = "2023-24" -> 2023
      [] s = "2024-25" -> 2024

----------------------------------------------------------------------------
\* FROM player_merged_stats x LEFT JOIN player_salaries y
\*      ON x.player_name = y.player_name AND x.season = y.season

NullSalary == [salary |-> NULL, salary_formatted |-> NULL, salary_rank |-> NULL]

Joined(r, s) ==
    [player_name |-> r.player_name, season |-> r.season, team |-> r.team,
     position |-> r.position, games_played |-> r.games_played,
     pg_points |-> r.pg_points, adv_win_shares |-> r.adv_win_shares,
     adv_value_over_replacement |-> r.adv_value_over_replacement,
     salary |-> s.salary, salary_formatted |-> s.salary_formatted,
     salary_rank |-> s.salary_rank]

JoinSalary(stats, sal) ==
    UNION { LET m == {s \in sal : s.player_name = r.player_name /\ s.season = r.season}
            IN  IF m = {} THEN {Joined(r, NullSalary)}
                          ELSE {Joined(r, s) : s \in m}
            : r \in stats }

\* SUM(f), COUNT(f) over the rows of a group: NULLs are skipped, SUM of no value is NULL
RECURSIVE SumField(_, _)
SumField(J, f) ==
    IF J = {} THEN NULL
    ELSE LET j == CHOOSE x \in J : TRUE
             rest == SumField(J \ {j}, f)
         IN  IF j[f] = NULL THEN rest
             ELSE IF rest = NULL THEN j[f]
             ELSE Some(j[f][1] + rest[1])

CountField(J, f) == Cardinality({j \in J : j[f] # NULL})

\* ORDER BY <season> DESC, <key> DESC.  NULL sorts below every value, so last
\* under DESC; rows equal on both keys come in any order.
StrictlyBefore(a, b, sf, kf) ==
    \/ SeasonYear(a[sf]) > SeasonYear(b[sf])
    \/ /\ a[sf] = b[sf]
       /\ a[kf] # NULL
       /\ (b[kf] = NULL \/ a[kf][1] > b[kf][1])

OrderingsUnsorted(S, sf, kf) ==
    LET n == Cardinality(S)
    IN  { q \in [1..n -> S] : \A i, j \in 1..n : i # j => q[i] # q[j] }

Orderings(S, sf, kf) ==
    LET n == Cardinality(S)
    IN  { q \in [1..n -> S] :
            /\ \A i, j \in 1..n : i # j => q[i] # q[j]
            /\ \A i, j \in 1..n : i < j => ~StrictlyBefore(q[j], q[i], sf, kf) }

----------------------------------------------------------------------------
\* create_main_dashboard_data

PointsPerMillionElseZero(pts, sal) ==
    IF SqlGT(pts, 0) /\ SqlGT(sal, 0)
    THEN Some(RoundDiv(pts[1] * 10000, sal[1])) ELSE Some(0)

PointsPerMillionTruncate(pts, sal) ==
    IF SqlGT(pts, 0) /\ SqlGT(sal, 0)
    THEN Some((pts[1] * 10000) \div sal[1]) ELSE NULL

PointsPerMillion(pts, sal) ==
    IF SqlGT(pts, 0) /\ SqlGT(sal, 0)
    THEN Some(RoundDiv(pts[1] * 10000, sal[1])) ELSE NULL

SalaryPer(stat, sal) ==
    IF SqlGT(stat, 0) /\ SqlGT(sal, 0)
    THEN Some(RoundDiv(sal[1] * 10000, stat[1])) ELSE NULL

SalaryTier(rank) ==
    IF SqlLE(rank, 10) THEN "Top 10 (Supermax)"
    ELSE IF SqlLE(rank, 30) THEN "Top 30 (Max)"
    ELSE IF SqlLE(rank, 50) THEN "Top 50"
    ELSE IF SqlLE(rank, 100) THEN "Top 100"
    ELSE IF SqlLE(rank, 200) THEN "Top 200"
    ELSE "Other"

ScoringTier(pts) ==
    IF SqlGE(pts, 250) THEN "Elite Scorer (25+ PPG)"
    ELSE IF SqlGE(pts, 200) THEN "All-Star (20-25 PPG)"
    ELSE IF SqlGE(pts, 150) THEN "Starter (15-20 PPG)"
    ELSE IF SqlGE(pts, 100) THEN "Role Player (10-15 PPG)"
    ELSE "Bench Player (<10 PPG)"

ImpactTier(vorp) ==
    IF SqlGE(vorp, 60) THEN "Superstar (6+ VORP)"
    ELSE IF SqlGE(vorp, 40) THEN "Star (4-6 VORP)"
    ELSE IF SqlGE(vorp, 20) THEN "Above Average (2-4 VORP)"
    ELSE IF SqlGE(vorp, 0) THEN "Average (0-2 VORP)"
    ELSE "Below Average (<0 VORP)"

MainDashboardRow(j) ==
    [player_name |-> j.player_name, season |-> j.season, team |-> j.team,
     position |-> j.position, games_played |-> j.games_played,
     salary |-> j.salary, salary_formatted |-> j.salary_formatted,
     salary_rank |-> j.salary_rank,
     ppg |-> j.pg_points, WS |-> j.adv_win_shares,
     VORP |-> j.adv_value_over_replacement,
     points_per_million |-> PointsPerMillion(j.pg_points, j.salary),
     salary_per_win_share |-> SalaryPer(j.adv_win_shares, j.salary),
     salary_per_vorp |-> SalaryPer(j.adv_value_over_replacement, j.salary),
     salary_tier |-> SalaryTier(j.salary_rank),
     scoring_tier |-> ScoringTier(j.pg_points),
     impact_tier |-> ImpactTier(j.adv_value_over_replacement),
     season_year |-> SeasonYear(j.season)]

MainDashboardFrom(stats, sal) ==
    JoinSalary(stats, sal)

MainDashboardWhereStrict(j) == j.games_played > 10

MainDashboardWhere(j) == j.games_played >= 10

MainDashboardQuery(stats, sal) ==
    Orderings({ MainDashboardRow(j) :
                  j \in {x \in MainDashboardFrom(stats, sal) : MainDashboardWhere(x)} },
              "season", "salary")

----------------------------------------------------------------------------
\* create_team_summary_data

PayrollPer(total, payroll) ==
    IF SqlGT(total, 0)
    THEN (IF payroll = NULL THEN NULL
          ELSE Some(RoundDiv(payroll[1] * 10000, total[1])))
    ELSE NULL

TeamSummaryRow(G) ==
    LET g == CHOOSE x \in G : TRUE
    IN  [season |-> g.season, team |-> g.team,
         roster_count |-> Cardinality({x.player_name : x \in G}),
         total_payroll |-> SumField(G, "salary"),
         total_WS |-> SumField(G, "adv_win_shares"),
         total_VORP |-> SumField(G, "adv_value_over_replacement"),
         payroll_per_WS |-> PayrollPer(SumField(G, "adv_win_shares"),
                                       SumField(G, "salary")),
         payroll_per_VORP |-> PayrollPer(SumField(G, "adv_value_over_replacement"),
                                         SumField(G, "salary")),
         season_year |-> SeasonYear(g.season)]

TeamSummaryQuery(stats, sal) ==
    LET J == {x \in JoinSalary(stats, sal) : x.games_played >= 10}
        groups == { {y \in J : y.season = x.season /\ y.team = x.team} : x \in J }
    IN  Orderings({ TeamSummaryRow(G) : G \in groups }, "season", "total_VORP")

----------------------------------------------------------------------------
\* create_player_comparison_data

\* a row of the joined table prev: every column nullable (all NULL when the
\* LEFT JOIN found no match)
NullPrev ==
    [player_name |-> NULL, season |-> NULL, team |-> NULL, games_played |-> NULL,
     pg_points |-> NULL, adv_win_shares |-> NULL, adv_value_over_replacement |-> NULL]

PrevOf(p) ==
    [player_name |-> Some(p.player_name), season |-> Some(p.season),
     team |-> Some(p.team), games_played |-> Some(p.games_played),
     pg_points |-> p.pg_points, adv_win_shares |-> p.adv_win_shares,
     adv_value_over_replacement |-> p.adv_value_over_replacement]

PrevMatchAnySeason(c, p) ==
    /\ c.player_name = p.player_name
    /\ c.season # p.season

PrevMatch(c, p) ==
    /\ c.player_name = p.player_name
    /\ \/ (c.season = "2023-24" /\ p.season = "2022-23")
       \/ (c.season = "2024-25" /\ p.season = "2023-24")

\* LEFT JOIN player_salaries y ON x.player_name = y.player_name AND x.season = y.season
\* for one row x whose key columns may be NULL
SalaryOfKey(name, season, sal) ==
    LET m == {s \in sal : /\ name # NULL /\ name[1] = s.player_name
                          /\ season # NULL /\ season[1] = s.season}
    IN  IF m = {} THEN {NullSalary}
        ELSE {[salary |-> s.salary, salary_formatted |-> s.salary_formatted,
               salary_rank |-> s.salary_rank] : s \in m}

PerformanceTrend(c, p) ==
    LET base == IFNULL(p, 0)[1]
    IN  IF SqlGT(c, base + 20) THEN "Significantly Improved"
        ELSE IF SqlGT(c, base) THEN "Improved"
        ELSE IF SqlLT(c, base - 20) THEN "Significantly Declined"
        ELSE IF SqlLT(c, base) THEN "Declined"
        ELSE "Stable"

ImpactTrendNoCoalesce(c, p) ==
    IF p = NULL THEN "Consistent"
    ELSE IF SqlGT(c, p[1] + 10) THEN "Breakout"
    ELSE IF SqlGT(c, p[1]) THEN "Improving"
    ELSE IF SqlLT(c, p[1] - 10) THEN "Regression"
    ELSE IF SqlLT(c, p[1]) THEN "Declining"
    ELSE "Consistent"

ImpactTrend(c, p) ==
    LET base == IFNULL(p, 0)[1]
    IN  IF SqlGT(c, base + 10) THEN "Breakout"
        ELSE IF SqlGT(c, base) THEN "Improving"
        ELSE IF SqlLT(c, base - 10) THEN "Regression"
        ELSE IF SqlLT(c, base) THEN "Declining"
        ELSE "Consistent"

PlayerComparisonRow(c, cs, p, pS) ==
    [player_name |-> c.player_name, current_season |-> c.season,
     current_team |-> c.team,
     current_salary |-> cs.salary,
     current_salary_formatted |-> cs.salary_formatted,
     current_salary_rank |-> cs.salary_rank,
     current_games |-> c.games_played, current_ppg |-> c.pg_points,
     current_WS |-> c.adv_win_shares,
     current_VORP |-> c.adv_value_over_replacement,
     previous_season |-> p.season, previous_team |-> p.team,
     previous_salary |-> pS.salary, previous_salary_rank |-> pS.salary_rank,
     previous_games |-> p.games_played, previous_ppg |-> p.pg_points,
     previous_WS |-> p.adv_win_shares,
     previous_VORP |-> p.adv_value_over_replacement,
     salary_change |-> SqlMinus(cs.salary, IFNULL(pS.salary, 0)),
     ppg_change |-> SqlMinus(c.pg_points, IFNULL(p.pg_points, 0)),
     vorp_change |-> SqlMinus(c.adv_value_over_replacement,
                              IFNULL(p.adv_value_over_replacement, 0)),
     ws_change |-> SqlMinus(c.adv_win_shares, IFNULL(p.adv_win_shares, 0)),
     performance_trend |-> PerformanceTrend(c.pg_points, p.pg_points),
     impact_trend |-> ImpactTrend(c.adv_value_over_replacement,
                                  p.adv_value_over_replacement),
     season_year |-> SeasonYear(c.season)]

PlayerComparisonQuery(stats, sal) ==
    LET PrevRows(c) ==
            LET m == {p \in stats : PrevMatch(c, p)}
            IN  IF m = {} THEN {NullPrev} ELSE {PrevOf(p) : p \in m}
        RowsOf(c) ==
            UNION { UNION { { PlayerComparisonRow(c, cs, p, pS)
                              : pS \in SalaryOfKey(p.player_name, p.season, sal) }
                            : p \in PrevRows(c) }
                    : cs \in SalaryOfKey(Some(c.player_name), Some(c.season), sal) }
    IN  Orderings(UNION { RowsOf(c) : c \in {x \in stats : x.games_played >= 20} },
                  "current_season", "vorp_change")

----------------------------------------------------------------------------
\* create_value_analysis_data

ValueScore(vorp, sal) ==
    IF SqlGT(vorp, 0) /\ SqlGT(sal, 0)
    THEN Some(RoundDiv(vorp[1] * 1000000, sal[1])) ELSE NULL

ValueCategoryLowFirst(rank, vorp) ==
    IF SqlLE(rank, 50) /\ SqlGE(vorp, 20) THEN "Star - Fair Value"
    ELSE IF SqlLE(rank, 50) /\ SqlGE(vorp, 40) THEN "Star - Excellent Value"
    ELSE IF SqlLE(rank, 50) /\ SqlLT(vorp, 20) THEN "Star - Overpaid"
    ELSE IF SqlGT(rank, 50) /\ SqlGE(vorp, 20) THEN "Good Value"
    ELSE IF SqlGT(rank, 50) /\ SqlGE(vorp, 40) THEN "Hidden Gem"
    ELSE IF SqlGT(rank, 50) /\ SqlGE(vorp, 0) THEN "Fair Value"
    ELSE "Below Average"

ValueCategory(rank, vorp) ==
    IF SqlLE(rank, 50) /\ SqlGE(vorp, 40) THEN "Star - Excellent Value"
    ELSE IF SqlLE(rank, 50) /\ SqlGE(vorp, 20) THEN "Star - Fair Value"
    ELSE IF SqlLE(rank, 50) /\ SqlLT(vorp, 20) THEN "Star - Overpaid"
    ELSE IF SqlGT(rank, 50) /\ SqlGE(vorp, 40) THEN "Hidden Gem"
    ELSE IF SqlGT(rank, 50) /\ SqlGE(vorp, 20) THEN "Good Value"
    ELSE IF SqlGT(rank, 50) /\ SqlGE(vorp, 0) THEN "Fair Value"
    ELSE "Below Average"

ValueAnalysisRow(j) ==
    [player_name |-> j.player_name, season |-> j.season, team |-> j.team,
     position |-> j.position, games_played |-> j.games_played,
     salary |-> j.salary, salary_formatted |-> j.salary_formatted,
     salary_rank |-> j.salary_rank,
     pg_points |-> j.pg_points, WS |-> j.adv_win_shares,
     VORP |-> j.adv_value_over_replacement,
     points_per_million |-> PointsPerMillion(j.pg_points, j.salary),
     salary_per_WS |-> SalaryPer(j.adv_win_shares, j.salary),
     salary_per_VORP |-> SalaryPer(j.adv_value_over_replacement, j.salary),
     value_score |-> ValueScore(j.adv_value_over_replacement, j.salary),
     value_category |-> ValueCategory(j.salary_rank, j.adv_value_over_replacement),
     season_year |-> SeasonYear(j.season)]

ValueAnalysisQuery(stats, sal) ==
    Orderings({ ValueAnalysisRow(j) :
                  j \in {x \in JoinSalary(stats, sal) :
                            x.games_played >= 20 /\ x.salary # NULL} },
              "season", "value_score")

----------------------------------------------------------------------------
\* create_position_analysis_data

\* ROUND(AVG(f), d): scale takes the unit of f to the unit of the rounded result
AvgField(G, f, scale) ==
    IF CountField(G, f) = 0 THEN NULL
    ELSE Some(RoundDiv(SumField(G, f)[1] * scale, CountField(G, f)))

PositionAnalysisRow(G) ==
    LET g == CHOOSE x \in G : TRUE
    IN  [position |-> g.position, season |-> g.season,
         player_count |-> Cardinality({x.player_name : x \in G}),
         avg_salary |-> AvgField(G, "salary", 1000),
         avg_ppg |-> AvgField(G, "pg_points", 10),
         avg_WS |-> AvgField(G, "adv_win_shares", 10),
         avg_VORP |-> AvgField(G, "adv_value_over_replacement", 10),
         season_year |-> SeasonYear(g.season)]

PositionAnalysisQuery(stats, sal) ==
    LET J == {x \in JoinSalary(stats, sal) :
                 x.games_played >= 40 /\ x.position # NULL}
        groups == { {y \in J : y.season = x.season /\ y.position = x.position} : x \in J }
    IN  Orderings({ PositionAnalysisRow(G) : G \in groups }, "season", "avg_VORP")

\* the query of derivation k
QueryOf(k, stats, sal) ==
    CASE k = 1 -> MainDashboardQuery(stats, sal)
      [] k = 2 -> TeamSummaryQuery(stats, sal)
      [] k = 3 -> PlayerComparisonQuery(stats, sal)
      [] k = 4 -> ValueAnalysisQuery(stats, sal)
      [] k = 5 -> PositionAnalysisQuery(stats, sal)

----------------------------------------------------------------------------
\* Source tables.  Both tables hold one row per (player_name, season).

StatRow(p, s, t, pos, gp, pts, ws, vorp) ==
    [player_name |-> p, season |-> s, team |-> t, position |-> pos,
     games_played |-> gp, pg_points |-> pts, adv_win_shares |-> ws,
     adv_value_over_replacement |-> vorp]

SalaryRow(p, s, sal, rank) ==
    [player_name |-> p, season |-> s, salary |-> sal,
     salary_formatted |-> IF sal = NULL THEN NULL ELSE Some("$"),
     salary_rank |-> rank]

Nullable(S) == {NULL} \cup {Some(v) : v \in S}

\* one player-season with every combination of the operands of the value ratios
RatioTables ==
    { <<{StatRow(1, "2023-24", "BOS", pos, gp, pts, ws, vorp)}, sal>> :
        pos \in Nullable({"PG"}), gp \in {9, 10, 19, 20, 30, 40},
        pts \in Nullable({0, 99, 100, 150, 200, 250}),
        ws \in Nullable({0, 25}), vorp \in Nullable({0, 20}),
        sal \in {{}} \cup { {SalaryRow(1, "2023-24", x, Some(5))} :
                              x \in Nullable({0, 0 - 1000, 10000, 30000}) } }

\* one player-season with every combination of salary_rank and VORP bucket
CategoryTables ==
    { <<{StatRow(1, "2023-24", "BOS", Some("PG"), 20, Some(200), Some(25), vorp)},
        {SalaryRow(1, "2023-24", Some(10000), rank)}>> :
        vorp \in Nullable({0 - 5, 0, 19, 20, 39, 40, 60}),
        rank \in Nullable({5, 50, 51, 201}) }

\* two player-seasons, of one player or of two
PairStat(key, gp, vorp) ==
    StatRow(key[1], key[2], "BOS", Some("PG"), gp, Some(100), Some(25), vorp)

PairTables ==
    { <<{PairStat(k1, g1, v1), PairStat(k2, g2, v2)}, sal>> :
        k1 \in Players \X Seasons, k2 \in Players \X Seasons,
        g1 \in {19, 20}, g2 \in {19, 20},
        v1 \in Nullable({0 - 15, 0 - 10, 0 - 5, 0, 5, 10, 30}),
        v2 \in Nullable({0 - 15, 0 - 10, 0 - 5, 0, 5, 10, 30}),
        sal \in {{}, {SalaryRow(1, "2022-23", Some(10000), Some(5)),
                      SalaryRow(1, "2023-24", Some(12000), Some(4))}} }

\* every player in one season, on one of two teams
TeamChoices ==
    [team : {"BOS", "LAL"}, gp : {9, 10, 40}, ws : Nullable({0 - 20, 20}),
     paid : BOOLEAN]

TeamTables ==
    { << { StatRow(p, "2023-24", c[p].team, Some("PG"), c[p].gp, Some(100),
                   c[p].ws, c[p].ws) : p \in Players },
         { SalaryRow(p, "2023-24", Some(10000), Some(p)) :
                   p \in {x \in Players : c[x].paid} } >> :
        c \in [Players -> TeamChoices] }

\* every player in one season, with the games-played thresholds of the queries
RunChoices == [gp : {9, 10, 20, 40}, paid : BOOLEAN]

RunTables ==
    { << { StatRow(p, "2023-24", "BOS", Some("PG"), c[p].gp, Some(200),
                   Some(25), Some(20)) : p \in Players },
         { SalaryRow(p, "2023-24", Some(10000), Some(5)) :
                   p \in {x \in Players : c[x].paid} } >> :
        c \in [Players -> RunChoices] }

KeysUnique(T) ==
    \A a, b \in T : (a.player_name = b.player_name /\ a.season = b.season) => a = b

----------------------------------------------------------------------------
\* main()

NoConn == "None"
ConnObj == "MySQLConnection"
NoDf == <<>>
NoFile == <<>>
NoSummary == <<>>

Line(m, k, n) == [msg |-> m, k |-> k, n |-> n]

InitRun ==
    /\ pc = "start"
    /\ step = 0
    /\ connection = NoConn
    /\ link = "none"
    /\ closeCalls = 0
    /\ dfs = [k \in Steps |-> NoDf]
    /\ files = [k \in Steps |-> NoFile]
    /\ summary = NoSummary
    /\ log = <<>>

Init ==
    /\ \E T \in RunTables :
          /\ KeysUnique(T[1]) /\ KeysUnique(T[2])
          /\ pms = T[1] /\ ps = T[2]
    /\ InitRun

InitQ ==
    /\ \E T \in RatioTables \cup CategoryTables \cup PairTables \cup TeamTables :
          /\ KeysUnique(T[1]) /\ KeysUnique(T[2])
          /\ pms = T[1] /\ ps = T[2]
    /\ InitRun

\* connect_to_database: connected
ConnectOk ==
    /\ pc = "start"
    /\ connection' = ConnObj
    /\ link' = "up"
    /\ log' = Append(log, Line("Connected to MySQL database", 0, 0))
    /\ pc' = "check"
    /\ UNCHANGED <<pms, ps, step, closeCalls, dfs, files, summary>>

\* connect_to_database: connect() raised Error, None is returned
ConnectError ==
    /\ pc = "start"
    /\ connection' = NoConn
    /\ link' = "none"
    /\ log' = Append(log, Line("Error connecting to MySQL", 0, 0))
    /\ pc' = "check"
    /\ UNCHANGED <<pms, ps, step, closeCalls, dfs, files, summary>>

\* connect_to_database: connect() returned an object that is not connected;
\* the function falls off its end and returns None
ConnectNotConnected ==
    /\ pc = "start"
    /\ connection' = NoConn
    /\ link' = "lost"
    /\ pc' = "check"
    /\ UNCHANGED <<pms, ps, step, closeCalls, dfs, files, summary, log>>

ReturnNoConnectionMissing ==
    /\ pc = "check"
    /\ connection = NoConn
    /\ log' = Append(log, Line("Failed to connect to database", 0, 0))
    /\ pc' = "query"
    /\ step' = 1
    /\ UNCHANGED <<pms, ps, connection, link, closeCalls, dfs, files, summary>>

\* if not connection: return
ReturnNoConnection ==
    /\ pc = "check"
    /\ connection = NoConn
    /\ log' = Append(log, Line("Failed to connect to database", 0, 0))
    /\ pc' = "done"
    /\ UNCHANGED <<pms, ps, step, connection, link, closeCalls, dfs, files, summary>>

\* entering the try block
BeginDatasets ==
    /\ pc = "check"
    /\ connection # NoConn
    /\ log' = Append(log, Line("Creating Tableau-ready datasets", 0, 0))
    /\ pc' = "query"
    /\ step' = 1
    /\ UNCHANGED <<pms, ps, connection, link, closeCalls, dfs, files, summary>>

\* the server or the network drops the session
LoseConnection ==
    /\ pc \in {"check", "query", "write", "summary", "finally"}
    /\ link = "up"
    /\ link' = "lost"
    /\ UNCHANGED <<pms, ps, pc, step, connection, closeCalls, dfs, files, summary, log>>

\* create_..._data(connection) returns its DataFrame
QueryOk(k) ==
    /\ pc = "query"
    /\ step = k
    /\ connection # NoConn
    /\ link = "up"
    /\ \E df \in QueryOf(k, pms, ps) :
          /\ dfs' = [dfs EXCEPT ![k] = Some(df)]
          /\ log' = log \o <<Line("Fetching", k, 0), Line("Fetched", k, Len(df))>>
    /\ pc' = "write"
    /\ UNCHANGED <<pms, ps, step, connection, link, closeCalls, files, summary>>

QueryRaiseContinue(k) ==
    /\ pc = "query"
    /\ step = k
    /\ log' = log \o <<Line("Fetching", k, 0), Line("Error creating datasets", k, 0)>>
    /\ IF k = 5 THEN pc' = "finally" /\ step' = step
                ELSE pc' = "query" /\ step' = k + 1
    /\ UNCHANGED <<pms, ps, connection, link, closeCalls, dfs, files, summary>>

QueryRaiseNoCleanup(k) ==
    /\ pc = "query"
    /\ step = k
    /\ log' = log \o <<Line("Fetching", k, 0), Line("Error creating datasets", k, 0)>>
    /\ pc' = "done"
    /\ UNCHANGED <<pms, ps, step, connection, link, closeCalls, dfs, files, summary>>

\* pd.read_sql raises (always, on a session that is not up); the except
\* clause logs the error and its traceback
QueryRaise(k) ==
    /\ pc = "query"
    /\ step = k
    /\ log' = log \o <<Line("Fetching", k, 0), Line("Error creating datasets", k, 0)>>
    /\ pc' = "finally"
    /\ UNCHANGED <<pms, ps, step, connection, link, closeCalls, dfs, files, summary>>

\* df.to_csv(...) writes the file
WriteOk(k) ==
    /\ pc = "write"
    /\ step = k
    /\ files' = [files EXCEPT ![k] = Some([rows |-> dfs[k][1], complete |-> TRUE])]
    /\ log' = Append(log, Line("Created", k, 0))
    /\ IF k = 5 THEN pc' = "summary" /\ step' = step
                ELSE pc' = "query" /\ step' = k + 1
    /\ UNCHANGED <<pms, ps, connection, link, closeCalls, dfs, summary>>

WriteRaiseContinue(k) ==
    /\ pc = "write"
    /\ step = k
    /\ files' = files
    /\ log' = Append(log, Line("Error creating datasets", k, 0))
    /\ IF k = 5 THEN pc' = "finally" /\ step' = step
                ELSE pc' = "query" /\ step' = k + 1
    /\ UNCHANGED <<pms, ps, connection, link, closeCalls, dfs, summary>>

\* df.to_csv(...) raises: no file, or a file cut short; the except clause logs
WriteRaise(k) ==
    /\ pc = "write"
    /\ step = k
    /\ \E f \in {NoFile} \cup
               { Some([rows |-> SubSeq(dfs[k][1], 1, m), complete |-> FALSE]) :
                   m \in 0..Len(dfs[k][1]) } :
          files' = [files EXCEPT ![k] = f]
    /\ log' = Append(log, Line("Error creating datasets", k, 0))
    /\ pc' = "finally"
    /\ UNCHANGED <<pms, ps, step, connection, link, closeCalls, dfs, summary>>

LogSummaryFirstCount ==
    /\ pc = "summary"
    /\ summary' = Some([k \in Steps |-> IF dfs[1] = NoDf THEN 0 ELSE Len(dfs[1][1])])
    /\ log' = Append(log, Line("TABLEAU DATA PREPARATION COMPLETE!", 0, 0))
    /\ pc' = "finally"
    /\ UNCHANGED <<pms, ps, step, connection, link, closeCalls, dfs, files>>

\* the summary: one line per dataset with len(df)
LogSummary ==
    /\ pc = "summary"
    /\ summary' = Some([k \in Steps |-> Len(dfs[k][1])])
    /\ log' = Append(log, Line("TABLEAU DATA PREPARATION COMPLETE!", 0, 0))
    /\ pc' = "finally"
    /\ UNCHANGED <<pms, ps, step, connection, link, closeCalls, dfs, files>>

\* finally: if connection and connection.is_connected(): connection.close()
CleanupClose ==
    /\ pc = "finally"
    /\ connection # NoConn /\ link = "up"
    /\ closeCalls' = closeCalls + 1
    /\ link' = "closed"
    /\ log' = Append(log, Line("Database connection closed", 0, 0))
    /\ pc' = "done"
    /\ UNCHANGED <<pms, ps, step, connection, dfs, files, summary>>

CleanupSkip ==
    /\ pc = "finally"
    /\ ~(connection # NoConn /\ link = "up")
    /\ pc' = "done"
    /\ UNCHANGED <<pms, ps, step, connection, link, closeCalls, dfs, files, summary, log>>

\* a run in which nothing fails
NextQ ==
    \/ ConnectOk
    \/ BeginDatasets
    \/ \E k \in Steps : QueryOk(k)
    \/ \E k \in Steps : WriteOk(k)
    \/ LogSummary
    \/ CleanupClose

Next ==
    \/ NextQ
    \/ ConnectError
    \/ ConnectNotConnected
    \/ ReturnNoConnection
    \/ LoseConnection
    \/ \E k \in Steps : QueryRaise(k)
    \/ \E k \in Steps : WriteRaise(k)
    \/ CleanupSkip

Spec == Init /\ [][Next]_vars

SpecQ == InitQ /\ [][NextQ]_vars

\* the script is invoked a second time against the same tables: a new process
\* (fresh locals, fresh connection), the CSV files of the first run still on
\* disk, the console output continuing
RunAgain ==
    /\ pc = "done"
    /\ \A i \in DOMAIN log : log[i].msg # "Run again"
    /\ pc' = "start"
    /\ step' = 0
    /\ connection' = NoConn
    /\ link' = "none"
    /\ closeCalls' = 0
    /\ dfs' = [k \in Steps |-> NoDf]
    /\ summary' = NoSummary
    /\ log' = Append(log, Line("Run again", 0, 0))
    /\ UNCHANGED <<pms, ps, files>>

\* two runs in which nothing fails
NextTwice ==
    \/ NextQ
    \/ RunAgain

SpecTwice == Init /\ [][NextTwice]_vars

----------------------------------------------------------------------------
\* Observations on a run

\* derivation k's query was started ("Fetching ..." is logged before read_sql)
Attempted(k) == \E i \in DOMAIN log : log[i].msg = "Fetching" /\ log[i].k = k

\* derivation k's query or CSV write raised
Failed(k) == \E i \in DOMAIN log : log[i].msg = "Error creating datasets" /\ log[i].k = k

\* derivation k's file was written completely
Produced(k) == files[k] # NoFile /\ files[k][1].complete

Rows(k) == files[k][1].rows

----------------------------------------------------------------------------
\* C1 as stated: when derivation k fails, every later derivation j > k is
\* still attempted in the same run.
C1_LaterDerivationsAttempted ==
    pc = "done" =>
        \A k \in Steps : Failed(k) => \A j \in (k + 1)..5 : Attempted(j)

\* C1 amended: a failure of derivation k is caught (the run goes on to the
\* cleanup block and returns normally) and ends the derivations: no
\* derivation j > k is attempted or written, and the files of the
\* derivations before k stay as written.
C1_FailureEndsDerivations ==
    \A k \in Steps : Failed(k) =>
        /\ pc \in {"finally", "done"}
        /\ step = k
        /\ \A j \in (k + 1)..5 : ~Attempted(j) /\ dfs[j] = NoDf /\ files[j] = NoFile
        /\ \A j \in 1..(k - 1) : Produced(j)
        /\ ~Produced(k)

C1_Witness ==
    /\ pc = "done"
    /\ Failed(2) /\ Attempted(2)
    /\ Produced(1)
    /\ ~Attempted(3)

\* C2 as stated: whenever connect_to_database gave main() a connection
\* object, close() has been called exactly once when main() returns.
C2_ClosedExactlyOnce ==
    (pc = "done" /\ connection # NoConn) => closeCalls = 1

\* C2 amended: close() is called at most once; when main() has returned, a
\* session that was still connected at the cleanup block has been closed
\* exactly once (after five successes or after a failure), and close() was
\* not called when the session was not connected or no connection was held.
C2_ClosedOnceIfConnected ==
    /\ closeCalls <= 1
    /\ (closeCalls = 1) <=> (link = "closed")
    /\ pc = "done" =>
          \/ link = "closed" /\ connection # NoConn
          \/ link \in {"lost", "none"} /\ closeCalls = 0

C2_Witness ==
    /\ pc = "done"
    /\ \E k \in Steps : Failed(k)
    /\ closeCalls = 1
    /\ link = "closed"

\* C3: when connect_to_database returns None, main() returns without
\* running any query and without writing any file.
C3_NoConnectionNoOutput ==
    (connection = NoConn) =>
        /\ pc \in {"start", "check", "done"}
        /\ \A k \in Steps : ~Attempted(k) /\ dfs[k] = NoDf /\ files[k] = NoFile
        /\ summary = NoSummary

C3_Witness ==
    /\ pc = "done"
    /\ connection = NoConn
    /\ \E i \in DOMAIN log : log[i].msg = "Failed to connect to database"

\* C4 as stated: every run that reached the connected state ends with a
\* summary of the record counts of the files produced, also after a failure.
C4_SummaryOnEveryRun ==
    (pc = "done" /\ connection # NoConn) =>
        /\ summary # NoSummary
        /\ \A k \in Steps : Produced(k) => summary[1][k] = Len(Rows(k))

\* C4 amended: the summary is logged exactly on the runs in which all five
\* files were produced, and then reports the record count of each of the
\* five; a run in which a derivation failed logs no summary.
C4_SummaryOnFullSuccess ==
    /\ summary # NoSummary =>
          \A k \in Steps : Produced(k) /\ summary[1][k] = Len(Rows(k))
    /\ pc = "done" =>
          ((summary # NoSummary) <=> (\A k \in Steps : Produced(k)))

C4_Witness ==
    /\ pc = "done"
    /\ summary # NoSummary
    /\ summary[1][1] = 2 /\ summary[1][3] = 1 /\ summary[1][5] = 0

----------------------------------------------------------------------------
\* Rows of the written files

FileRows(k) == IF Produced(k) THEN {Rows(k)[i] : i \in DOMAIN Rows(k)} ELSE {}

NotPositive(x) == x = NULL \/ x[1] <= 0
Positive(x) == x # NULL /\ x[1] > 0

\* C5 as stated: in every output row each derived ratio is NULL if and only
\* if its denominator source is NULL, zero or negative.
C5_RatioNullIffDenominator ==
    /\ \A r \in FileRows(1) :
          /\ (r.points_per_million = NULL) <=> NotPositive(r.salary)
          /\ (r.salary_per_win_share = NULL) <=> NotPositive(r.WS)
          /\ (r.salary_per_vorp = NULL) <=> NotPositive(r.VORP)
    /\ \A r \in FileRows(4) :
          /\ (r.points_per_million = NULL) <=> NotPositive(r.salary)
          /\ (r.salary_per_WS = NULL) <=> NotPositive(r.WS)
          /\ (r.salary_per_VORP = NULL) <=> NotPositive(r.VORP)
          /\ (r.value_score = NULL) <=> NotPositive(r.salary)
    /\ \A r \in FileRows(2) :
          /\ (r.payroll_per_WS = NULL) <=> NotPositive(r.total_WS)
          /\ (r.payroll_per_VORP = NULL) <=> NotPositive(r.total_VORP)

\* C5 amended: a derived ratio is NULL whenever its denominator source is
\* NULL, zero or negative, and also whenever its numerator source is: a
\* player-level ratio is non-NULL exactly when both its numerator source and
\* its denominator source are positive; payroll_per_WS and payroll_per_VORP
\* are non-NULL exactly when the summed stat is positive and the summed
\* payroll is not NULL.
C5_RatioNullRule ==
    /\ \A r \in FileRows(1) :
          /\ (r.points_per_million # NULL) <=> (Positive(r.ppg) /\ Positive(r.salary))
          /\ (r.salary_per_win_share # NULL) <=> (Positive(r.salary) /\ Positive(r.WS))
          /\ (r.salary_per_vorp # NULL) <=> (Positive(r.salary) /\ Positive(r.VORP))
    /\ \A r \in FileRows(4) :
          /\ (r.points_per_million # NULL) <=> (Positive(r.pg_points) /\ Positive(r.salary))
          /\ (r.salary_per_WS # NULL) <=> (Positive(r.salary) /\ Positive(r.WS))
          /\ (r.salary_per_VORP # NULL) <=> (Positive(r.salary) /\ Positive(r.VORP))
          /\ (r.value_score # NULL) <=> (Positive(r.VORP) /\ Positive(r.salary))
    /\ \A r \in FileRows(2) :
          /\ (r.payroll_per_WS # NULL) <=> (Positive(r.total_WS) /\ r.total_payroll # NULL)
          /\ (r.payroll_per_VORP # NULL) <=> (Positive(r.total_VORP) /\ r.total_payroll # NULL)

C5_Witness ==
    /\ \E r \in FileRows(1) :
          Positive(r.salary) /\ NotPositive(r.ppg) /\ r.points_per_million = NULL
    /\ \E r \in FileRows(4) :
          Positive(r.salary) /\ Positive(r.VORP) /\ r.value_score # NULL
    /\ \E r \in FileRows(2) : TRUE

\* C6: every ValueAnalysis row has exactly one value_category, the one its
\* salary_rank (<= 50 or > 50) and VORP (>= 4.0, >= 2.0, below) select;
\* NULL rank or NULL VORP, and VORP < 0 with rank > 50, give 'Below Average'.
C6_ValueCategoryBuckets ==
    \A r \in FileRows(4) :
        LET top == r.salary_rank # NULL /\ r.salary_rank[1] <= 50
            low == r.salary_rank # NULL /\ r.salary_rank[1] > 50
            v == r.VORP
            c == r.value_category
        IN  /\ (c = "Star - Excellent Value") <=> (top /\ v # NULL /\ v[1] >= 40)
            /\ (c = "Star - Fair Value") <=> (top /\ v # NULL /\ v[1] >= 20 /\ v[1] < 40)
            /\ (c = "Star - Overpaid") <=> (top /\ v # NULL /\ v[1] < 20)
            /\ (c = "Hidden Gem") <=> (low /\ v # NULL /\ v[1] >= 40)
            /\ (c = "Good Value") <=> (low /\ v # NULL /\ v[1] >= 20 /\ v[1] < 40)
            /\ (c = "Fair Value") <=> (low /\ v # NULL /\ v[1] >= 0 /\ v[1] < 20)
            /\ (c = "Below Average") <=>
                  (r.salary_rank = NULL \/ v = NULL \/ (low /\ v[1] < 0))

C6_Witness ==
    \E r \in FileRows(4) :
        /\ r.VORP = Some(60) /\ r.salary_rank = Some(5)
        /\ r.value_category = "Star - Excellent Value"

\* C7: MainDashboard has exactly one row for each stats row with
\* games_played >= 10 and none for a stats row with games_played <= 9; a
\* qualifying row without a salary record is kept with NULL salary fields.
C7_MainDashboardRows ==
    Produced(1) =>
        /\ \A r \in pms :
              Cardinality({i \in DOMAIN Rows(1) :
                              /\ Rows(1)[i].player_name = r.player_name
                              /\ Rows(1)[i].season = r.season})
                 = IF r.games_played >= 10 THEN 1 ELSE 0
        /\ Len(Rows(1)) = Cardinality({r \in pms : r.games_played >= 10})
        /\ \A r \in FileRows(1) :
              /\ r.games_played >= 10
              /\ (\A x \in ps : ~(x.player_name = r.player_name /\ x.season = r.season))
                    => (r.salary = NULL /\ r.salary_formatted = NULL
                        /\ r.salary_rank = NULL)
              /\ \A x \in ps : (x.player_name = r.player_name /\ x.season = r.season)
                    => (r.salary = x.salary /\ r.salary_rank = x.salary_rank)

C7_Witness ==
    /\ Produced(1)
    /\ \E r \in pms : r.games_played = 9
    /\ \E r \in FileRows(1) :
          /\ r.games_played = 10
          /\ r.salary = NULL /\ r.salary_formatted = NULL /\ r.salary_rank = NULL
          /\ \A x \in ps : x.player_name # r.player_name

\* C8: a PlayerComparison row has previous-season fields only from the same
\* player's '2022-23' row (current season '2023-24') or '2023-24' row
\* (current season '2024-25'); every stats row with games_played >= 20
\* appears once, with all previous-season fields NULL when it has no such row.
HasPrev(r) ==
    \/ r.previous_season # NULL \/ r.previous_team # NULL
    \/ r.previous_games # NULL \/ r.previous_ppg # NULL
    \/ r.previous_WS # NULL \/ r.previous_VORP # NULL
    \/ r.previous_salary # NULL \/ r.previous_salary_rank # NULL

C8_SeasonPairing ==
    Produced(3) =>
        /\ \A r \in FileRows(3) :
              HasPrev(r) =>
                 /\ \/ r.current_season = "2023-24" /\ r.previous_season = Some("2022-23")
                    \/ r.current_season = "2024-25" /\ r.previous_season = Some("2023-24")
                 /\ \E p \in pms :
                       /\ p.player_name = r.player_name
                       /\ Some(p.season) = r.previous_season
                       /\ r.previous_games = Some(p.games_played)
                       /\ r.previous_VORP = p.adv_value_over_replacement
                       /\ r.previous_ppg = p.pg_points
        /\ \A c \in pms :
              Cardinality({i \in DOMAIN Rows(3) :
                              /\ Rows(3)[i].player_name = c.player_name
                              /\ Rows(3)[i].current_season = c.season})
                 = IF c.games_played >= 20 THEN 1 ELSE 0
        /\ \A r \in FileRows(3) :
              r.current_season \notin {"2023-24", "2024-25"} => ~HasPrev(r)

C8_Witness ==
    /\ \E r \in FileRows(3) :
          /\ r.current_season = "2023-24" /\ r.previous_season = Some("2022-23")
    /\ \E r \in FileRows(3) :
          /\ r.current_season = "2022-23" /\ ~HasPrev(r)
          /\ \E p \in pms : p.player_name = r.player_name /\ p.season # r.current_season

\* C9: with a NULL previous VORP, impact_trend compares the current VORP
\* with zero: 'Breakout' above 1, 'Improving' above 0 up to 1, 'Consistent'
\* at 0, 'Declining' from -1 up to below 0, 'Regression' below -1.
C9_NullPreviousVorpIsZero ==
    \A r \in FileRows(3) :
        (r.previous_VORP = NULL /\ r.current_VORP # NULL) =>
            LET c == r.current_VORP[1]
            IN  r.impact_trend =
                   CASE c > 10 -> "Breakout"
                     [] c > 0 /\ c <= 10 -> "Improving"
                     [] c = 0 -> "Consistent"
                     [] c >= 0 - 10 /\ c < 0 -> "Declining"
                     [] c < 0 - 10 -> "Regression"

C9_Witness ==
    \E r \in FileRows(3) :
        /\ r.previous_season # NULL /\ r.previous_VORP = NULL
        /\ r.current_VORP = Some(30)
        /\ r.impact_trend = "Breakout"

\* C10: points_per_million is pg_points / (salary / 1,000,000) rounded to 2
\* decimals when both are positive (20.0 points at 10,000,000 give 2.0), and
\* scoring_tier is the first bucket of >= 25, >= 20, >= 15, >= 10, else bench.
Abs(x) == IF x >= 0 THEN x ELSE 0 - x

C10_PointsPerMillion ==
    \A r \in FileRows(1) :
        /\ (Positive(r.ppg) /\ Positive(r.salary)) =>
              /\ r.points_per_million # NULL
              /\ 2 * Abs(r.points_per_million[1] * r.salary[1] - r.ppg[1] * 10000)
                    <= r.salary[1]
        /\ r.scoring_tier =
              CASE r.ppg # NULL /\ r.ppg[1] >= 250 -> "Elite Scorer (25+ PPG)"
                [] r.ppg # NULL /\ r.ppg[1] >= 200 /\ r.ppg[1] < 250 -> "All-Star (20-25 PPG)"
                [] r.ppg # NULL /\ r.ppg[1] >= 150 /\ r.ppg[1] < 200 -> "Starter (15-20 PPG)"
                [] r.ppg # NULL /\ r.ppg[1] >= 100 /\ r.ppg[1] < 150 -> "Role Player (10-15 PPG)"
                [] r.ppg = NULL \/ r.ppg[1] < 100 -> "Bench Player (<10 PPG)"
        /\ (r.games_played = 30 /\ r.ppg = Some(200) /\ r.salary = Some(10000)) =>
              (r.points_per_million = Some(200)
               /\ r.scoring_tier = "All-Star (20-25 PPG)")

C10_Witness ==
    \E r \in FileRows(1) :
        /\ r.games_played = 30 /\ r.ppg = Some(200) /\ r.salary = Some(10000)
        /\ r.points_per_million = Some(200)
        /\ r.scoring_tier = "All-Star (20-25 PPG)"

----------------------------------------------------------------------------
\* Sort keys of the five queries (ORDER BY <season> DESC, <key> DESC)
SeasonFieldOf(k) == IF k = 3 THEN "current_season" ELSE "season"

SortKeyOf(k) ==
    CASE k = 1 -> "salary"
      [] k = 2 -> "total_VORP"
      [] k = 3 -> "vorp_change"
      [] k = 4 -> "value_score"
      [] k = 5 -> "avg_VORP"

\* two rows of file k are equal on both sort keys (two NULL keys are equal)
HasTie(k) ==
    \E i, j \in DOMAIN Rows(k) :
        /\ i # j
        /\ Rows(k)[i][SeasonFieldOf(k)] = Rows(k)[j][SeasonFieldOf(k)]
        /\ Rows(k)[i][SortKeyOf(k)] = Rows(k)[j][SortKeyOf(k)]

\* a second run of the script has started
SecondRun == \E i \in DOMAIN log : log[i].msg = "Run again"

\* derivation k's file was written by the second run
RewrittenBySecondRun(k) ==
    \E i, j \in DOMAIN log :
        /\ i < j
        /\ log[i].msg = "Run again"
        /\ log[j].msg = "Created" /\ log[j].k = k

\* C11 as stated: a second run against the same tables writes each file
\* identical to the first run's, row for row and in the same order, also
\* when rows tie on both sort keys.
C11_RerunIdentical ==
    [][\A k \in Steps : (Produced(k) /\ Produced(k)') => files'[k] = files[k]]_vars

\* C11 amended: a second run against the same tables writes, for each
\* derivation, the same rows as the first run; the row order is the same
\* whenever no two rows of the file tie on both sort keys (rows that tie,
\* two NULL tiebreak values included, may change places).
C11_RerunSameRows ==
    [][\A k \in Steps : (Produced(k) /\ Produced(k)') =>
          /\ FileRows(k)' = FileRows(k)
          /\ Len(Rows(k))' = Len(Rows(k))
          /\ ~HasTie(k) => files'[k] = files[k]]_vars

C11_Witness ==
    /\ pc = "done"
    /\ SecondRun
    /\ \A k \in Steps : RewrittenBySecondRun(k)
    /\ HasTie(1) /\ Rows(1)[1].salary = NULL

----------------------------------------------------------------------------
\* the files that exist, complete or cut short
FilesWritten == {k \in Steps : files[k] # NoFile}

Fetched(k) == \E i \in DOMAIN log : log[i].msg = "Fetched" /\ log[i].k = k

\* C12: at every point of a run the files written so far are a prefix of
\* main_dashboard, team_summary, player_comparison, value_analysis,
\* position_analysis; file k is written only after query k returned and
\* files 1..k-1 were written; once a derivation step has raised, no further
\* query is executed and no further file is written.
C12_FilesArePrefix ==
    /\ [](/\ \E n \in 0..5 : FilesWritten = 1..n
          /\ \A k \in FilesWritten :
                /\ Fetched(k) /\ dfs[k] # NoDf
                /\ \A j \in 1..(k - 1) : Produced(j))
    /\ [][/\ \A k \in Steps : files'[k] # files[k] =>
                /\ step = k /\ Fetched(k) /\ dfs[k] # NoDf
                /\ \A j \in 1..(k - 1) : Produced(j)
          /\ (\E k \in Steps : Failed(k)) =>
                /\ files' = files
                /\ dfs' = dfs
                /\ \A k \in Steps : Attempted(k)' => Attempted(k)]_vars

C12_Witness ==
    /\ pc = "done"
    /\ FilesWritten = {1, 2, 3}
    /\ Produced(1) /\ Produced(2) /\ ~Produced(3)
    /\ Failed(3) /\ Fetched(3)
    /\ ~Attempted(4) /\ ~Attempted(5)

====
